---------------------------- MODULE Spec2Model ----------------------------
(***************************************************************************)
(* Model of Tech_product_Cost_Analyser/app.py: the pure helpers            *)
(* (parse_number, detect_currency_code, extract_json_from_text,            *)
(* response_to_text) as operators, and the /results request handler as a   *)
(* state machine whose steps are cut at the calls to the generative model. *)
(*                                                                         *)
(* Text is a sequence of one-character strings.  Numbers are integers that *)
(* count thousandths (Unit per 1.0), so a cent is Unit \div 100 and        *)
(* round(x, 2) is rounding to a multiple of a cent.                        *)
(***************************************************************************)
EXTENDS Integers, Sequences, FiniteSets, TLC

VARIABLES
    api_key,      \* app.py:12  GOOGLE_API_KEY is configured (process-wide)
    pc,           \* where the current /results request stands
    form,         \* app.py:177-178  product_name and place of the request
    calls,        \* number of model.generate_content invocations so far
    extracted,    \* app.py:190,201  results of extract_json_from_text so far
    exc,          \* app.py:286  text of the exception the handler caught
    render,       \* app.py:276-315  arguments handed to render_template
    pn_arg,       \* argument of a parse_number call
    pn_ret,       \* its outcome
    place_arg,    \* argument of a detect_currency_code call
    code_ret      \* its outcome

vars == <<api_key, pc, form, calls, extracted, exc, render, pn_arg, pn_ret, place_arg, code_ret>>

handlerVars == <<api_key, pc, form, calls, extracted, exc, render>>
parseVars == <<pn_arg, pn_ret>>
currencyVars == <<place_arg, code_ret>>

-----------------------------------------------------------------------------
(* Bounds of the exploration *)

\* longest string handed to parse_number in SpecParse
MaxLen == 5
\* longest items list of the focus category in Spec
MaxItems == 2

\* ndigits of every round(x, 2) in app.py
Decimals == 2

Pow10(n) == IF n = 0 THEN 1 ELSE IF n = 1 THEN 10 ELSE IF n = 2 THEN 100 ELSE 1000
Unit == Pow10(Decimals + 1)
Cent == Unit \div Pow10(Decimals)

-----------------------------------------------------------------------------
(* Characters and Python's str helpers *)

Digits == {"0", "1", "2", "3", "4", "5", "6", "7", "8", "9"}
\* the class [\d,\.] of the regular expressions on lines 80 and 85
NumChars == Digits \cup {",", "."}
\* the class [-\u2013] of line 80: the hyphen, and "~" standing for the en dash
Dashes == {"-", "~"}
\* \s
Spaces == {" "}

DigitVal(c) ==
    CASE c = "0" -> 0 [] c = "1" -> 1 [] c = "2" -> 2 [] c = "3" -> 3
      [] c = "4" -> 4 [] c = "5" -> 5 [] c = "6" -> 6 [] c = "7" -> 7
      [] c = "8" -> 8 [] c = "9" -> 9

RECURSIVE LStrip(_)
LStrip(s) == IF s # <<>> /\ Head(s) \in Spaces THEN LStrip(Tail(s)) ELSE s

RECURSIVE RStrip(_)
RStrip(s) ==
    IF s # <<>> /\ s[Len(s)] \in Spaces THEN RStrip(SubSeq(s, 1, Len(s) - 1)) ELSE s

\* str.strip()
Strip(s) == RStrip(LStrip(s))

IsNumChar(c) == c \in NumChars
IsNotComma(c) == c # ","
IsDot(c) == c = "."

\* str.replace(',', '')
RemoveCommas(s) == SelectSeq(s, IsNotComma)
\* str.count('.')
CountDots(s) == Len(SelectSeq(s, IsDot))

\* Value, in thousandths, of a string of digits with at most one dot.  Digits
\* past the third decimal are dropped: they never change the cent a value
\* rounds to unless the third decimal is 5.
RECURSIVE IntPart(_, _)
IntPart(s, acc) ==
    IF s = <<>> \/ Head(s) = "." THEN acc
    ELSE IntPart(Tail(s), 10 * acc + DigitVal(Head(s)))

RECURSIVE AfterDot(_)
AfterDot(s) ==
    IF s = <<>> THEN <<>> ELSE IF Head(s) = "." THEN Tail(s) ELSE AfterDot(Tail(s))

FracPart(f) ==
    (IF Len(f) >= 1 THEN DigitVal(f[1]) * (Unit \div 10) ELSE 0)
    + (IF Len(f) >= 2 THEN DigitVal(f[2]) * (Unit \div 100) ELSE 0)
    + (IF Len(f) >= 3 THEN DigitVal(f[3]) * (Unit \div 1000) ELSE 0)

DecimalValue(s) == IntPart(s, 0) * Unit + FracPart(AfterDot(s))

\* Outcome of a call that may raise
Ok(v) == [raised |-> FALSE, val |-> v]
Raised(e) == [raised |-> TRUE, val |-> e]

\* the text after an optional sign
Unsigned(s) == IF s # <<>> /\ Head(s) \in {"-", "+"} THEN Tail(s) ELSE s

Negate(neg, x) == IF neg THEN 0 - x ELSE x

\* digits with at most one dot and at least one digit
IsDecimal(body) ==
    /\ body # <<>>
    /\ \A i \in 1..Len(body) : body[i] \in Digits \cup {"."}
    /\ CountDots(body) <= 1
    /\ \E i \in 1..Len(body) : body[i] \in Digits

FloatOfStripped(s) ==
    IF IsDecimal(Unsigned(s))
    THEN Ok(Negate(s # <<>> /\ Head(s) = "-", DecimalValue(Unsigned(s))))
    ELSE Raised("ValueError")

\* float(str): surrounding whitespace and one sign are accepted, then digits
\* with at most one dot and at least one digit; anything else is a ValueError.
\* (Exponents, underscores, "inf" and "nan" need characters no string of the
\* model has.)
PyFloatStr(s0) == FloatOfStripped(Strip(s0))

\* Rounding of x / step to the nearest integer, for step > 0.  An exact half
\* goes to the even neighbour; Python decides such a tie by the binary value
\* of the float.
RoundDiv(x, step) ==
    LET a == IF x < 0 THEN 0 - x ELSE x
        q == a \div step
        r == a % step
        up == (2 * r > step) \/ (2 * r = step /\ q % 2 = 1)
        m == IF up THEN q + 1 ELSE q
    IN  IF x < 0 THEN 0 - m ELSE m

\* round(x, 2) on a value in thousandths
Round2(x) == RoundDiv(x, Cent) * Cent

-----------------------------------------------------------------------------
(* JSON values as json.loads returns them *)

Absent == [t |-> "absent"]          \* the key is not in the mapping
None == [t |-> "null"]
Num(n) == [t |-> "num", n |-> n]    \* int or float, in thousandths
Bool(b) == [t |-> "bool", b |-> b]
Str(s) == [t |-> "str", s |-> s]
List(l) == [t |-> "list", l |-> l]
EmptyDict == [t |-> "dict"]

\* dict.get(key, default)
Get(v, default) == IF v = Absent THEN default ELSE v

\* str(value) of the values parse_number stringifies
PyStr(v) ==
    CASE v.t = "str" -> v.s
      [] v.t = "list" /\ v.l = <<>> -> <<"[", "]">>
      [] v.t = "dict" -> <<"{", "}">>

-----------------------------------------------------------------------------
(* parse_number, app.py:72-94 *)

\* end of the greedy run [\d,\.]* that starts at i
RECURSIVE RunEnd(_, _)
RunEnd(s, i) == IF i < Len(s) /\ s[i + 1] \in NumChars THEN RunEnd(s, i + 1) ELSE i

\* first position at or after i that \s* cannot consume
RECURSIVE SkipSpaces(_, _)
SkipSpaces(s, i) == IF i <= Len(s) /\ s[i] \in Spaces THEN SkipSpaces(s, i + 1) ELSE i

\* (\d[\d,\.]*)\s*[-–]\s*(\d[\d,\.]*) matched with group 1 starting at i.
\* Both groups are maximal runs: a shorter group 1 is followed by a character
\* of the run, which neither \s nor a dash matches.
RangeAt(s, i) ==
    LET j == RunEnd(s, i)
        k == SkipSpaces(s, j + 1)
        m == SkipSpaces(s, k + 1)
    IN  IF /\ s[i] \in Digits
           /\ k <= Len(s) /\ s[k] \in Dashes
           /\ m <= Len(s) /\ s[m] \in Digits
        THEN [ok |-> TRUE, a |-> SubSeq(s, i, j), b |-> SubSeq(s, m, RunEnd(s, m))]
        ELSE [ok |-> FALSE, a |-> <<>>, b |-> <<>>]

\* the leftmost start at which the range pattern matches
FirstRange(s, starts) ==
    IF starts = {} THEN [ok |-> FALSE, a |-> <<>>, b |-> <<>>]
    ELSE RangeAt(s, CHOOSE i \in starts : \A j \in starts : i <= j)

\* re.match(r'.*?(\d[\d,\.]*)\s*[-–]\s*(\d[\d,\.]*).*', s): the lazy prefix
\* takes the leftmost start at which the rest matches.
RangeMatch(s) == FirstRange(s, {i \in 1..Len(s) : RangeAt(s, i).ok})

\* line 84, given the outcomes of the two float() calls, which are outside
\* any try
MeanOf(a, b) ==
    IF a.raised THEN a
    ELSE IF b.raised THEN b
    ELSE Ok(RoundDiv(a.val + b.val, 2 * Cent) * Cent)

\* lines 81-84
ParseRange(m) ==
    MeanOf(PyFloatStr(RemoveCommas(m.a)), PyFloatStr(RemoveCommas(m.b)))

\* lines 90-94, given the outcome of float()
RoundedOrZero(num) == IF num.raised THEN Ok(0) ELSE Ok(Round2(num.val))

\* lines 86-94
ParseCleanedText(cleaned) ==
    IF cleaned = <<>> THEN Ok(0)
    ELSE RoundedOrZero(PyFloatStr(RemoveCommas(
             IF CountDots(cleaned) > 1 THEN RemoveCommas(cleaned) ELSE cleaned)))

\* lines 85-94
ParseCleaned(s) == ParseCleanedText(SelectSeq(s, IsNumChar))

\* lines 81-94, given the match of line 80
ParseMatched(s, m) == IF m.ok THEN ParseRange(m) ELSE ParseCleaned(s)

\* lines 78-94
ParseText(s) == IF s = <<>> THEN Ok(0) ELSE ParseMatched(s, RangeMatch(s))

parse_number(value) ==
    IF value.t = "null" THEN Ok(0)
    ELSE IF value.t = "num" THEN Ok(value.n)
    ELSE IF value.t = "bool" THEN Ok(IF value.b THEN Unit ELSE 0)
    ELSE ParseText(Strip(PyStr(value)))

-----------------------------------------------------------------------------
(* detect_currency_code, app.py:20-36 *)

\* the dict literal of lines 20-27, in insertion order
CURRENCY_MAP == <<
    [k |-> <<"i", "n", "d", "i", "a">>, v |-> "INR"],
    [k |-> <<"i", "n", "d">>, v |-> "INR"],
    [k |-> <<"s", "a", "u", "d", "i">>, v |-> "SAR"],
    [k |-> <<"s", "a", "u", "d", "i", " ", "a", "r", "a", "b", "i", "a">>, v |-> "SAR"],
    [k |-> <<"k", "i", "n", "g", "d", "o", "m">>, v |-> "SAR"],
    [k |-> <<"u", "a", "e">>, v |-> "AED"],
    [k |-> <<"u", "n", "i", "t", "e", "d", " ", "a", "r", "a", "b", " ", "e", "m", "i", "r", "a", "t", "e", "s">>, v |-> "AED"],
    [k |-> <<"u", "n", "i", "t", "e", "d", " ", "s", "t", "a", "t", "e", "s">>, v |-> "USD"],
    [k |-> <<"u", "s", "a">>, v |-> "USD"],
    [k |-> <<"u", "s">>, v |-> "USD"],
    [k |-> <<"a", "m", "e", "r", "i", "c", "a">>, v |-> "USD"],
    [k |-> <<"c", "a", "n", "a", "d", "a">>, v |-> "CAD"],
    [k |-> <<"a", "u", "s", "t", "r", "a", "l", "i", "a">>, v |-> "AUD"],
    [k |-> <<"u", "k">>, v |-> "GBP"],
    [k |-> <<"u", "n", "i", "t", "e", "d", " ", "k", "i", "n", "g", "d", "o", "m">>, v |-> "GBP"],
    [k |-> <<"g", "e", "r", "m", "a", "n", "y">>, v |-> "EUR"],
    [k |-> <<"f", "r", "a", "n", "c", "e">>, v |-> "EUR"],
    [k |-> <<"e", "u", "r", "o", "p", "e">>, v |-> "EUR"],
    [k |-> <<"j", "a", "p", "a", "n">>, v |-> "JPY"],
    [k |-> <<"c", "h", "i", "n", "a">>, v |-> "CNY"],
    [k |-> <<"p", "a", "k", "i", "s", "t", "a", "n">>, v |-> "PKR"],
    [k |-> <<"b", "a", "h", "r", "a", "i", "n">>, v |-> "BHD"],
    [k |-> <<"q", "a", "t", "a", "r">>, v |-> "QAR"],
    [k |-> <<"o", "m", "a", "n">>, v |-> "OMR"]
>>

UpperCase == <<"A", "B", "C", "D", "E", "F", "G", "H", "I", "J", "K", "L", "M", "N", "O", "P", "Q", "R", "S", "T", "U", "V", "W", "X", "Y", "Z">>
LowerCase == <<"a", "b", "c", "d", "e", "f", "g", "h", "i", "j", "k", "l", "m", "n", "o", "p", "q", "r", "s", "t", "u", "v", "w", "x", "y", "z">>

\* str.lower()
LowerChar(c) ==
    IF \E i \in 1..Len(UpperCase) : UpperCase[i] = c
    THEN LowerCase[CHOOSE i \in 1..Len(UpperCase) : UpperCase[i] = c]
    ELSE c
Lower(s) == [i \in 1..Len(s) |-> LowerChar(s[i])]

\* str.upper(), to build inputs
UpperChar(c) ==
    IF \E i \in 1..Len(LowerCase) : LowerCase[i] = c
    THEN UpperCase[CHOOSE i \in 1..Len(LowerCase) : LowerCase[i] = c]
    ELSE c
Upper(s) == [i \in 1..Len(s) |-> UpperChar(s[i])]

\* k in p
Contains(p, k) ==
    \E i \in 0..(Len(p) - Len(k)) : \A j \in 1..Len(k) : p[i + j] = k[j]

\* the loop of lines 33-35 from entry i on
RECURSIVE FirstMatch(_, _)
FirstMatch(p, i) ==
    IF i > Len(CURRENCY_MAP) THEN "USD"
    ELSE IF Contains(p, CURRENCY_MAP[i].k) THEN CURRENCY_MAP[i].v
    ELSE FirstMatch(p, i + 1)

detect_currency_code(place) ==
    IF place = <<>> THEN "USD" ELSE FirstMatch(Lower(Strip(place)), 1)

-----------------------------------------------------------------------------
(* Built-in conversions used by results() *)

\* truncation toward zero of a value in thousandths
Trunc(n) == IF n < 0 THEN 0 - ((0 - n) \div Unit) ELSE n \div Unit

IsInteger(body) == body # <<>> /\ \A i \in 1..Len(body) : body[i] \in Digits

IntOfStripped(s) ==
    IF IsInteger(Unsigned(s))
    THEN Ok(Negate(s # <<>> /\ Head(s) = "-", IntPart(Unsigned(s), 0)))
    ELSE Raised("ValueError")

\* int(str): surrounding whitespace and one sign, then digits only
PyIntStr(s0) == IntOfStripped(Strip(s0))

\* int(x), line 235
PyInt(v) ==
    CASE v.t = "num" -> Ok(Trunc(v.n))
      [] v.t = "bool" -> Ok(IF v.b THEN 1 ELSE 0)
      [] v.t = "str" -> PyIntStr(v.s)
      [] OTHER -> Raised("TypeError")

\* float(x), line 252
PyFloat(v) ==
    CASE v.t = "num" -> Ok(v.n)
      [] v.t = "bool" -> Ok(IF v.b THEN Unit ELSE 0)
      [] v.t = "str" -> PyFloatStr(v.s)
      [] OTHER -> Raised("TypeError")

\* isinstance(x, (int, float)); bool is a subclass of int
IsIntOrFloat(v) == v.t \in {"num", "bool"}

\* isinstance(x, dict)
IsDict(v) == v.t = "dict"

-----------------------------------------------------------------------------
(* The five categories, app.py:97-103 *)

CATEGORY_KEYS == <<
    [key |-> "vision_2030", title |-> "Vision 2030 & Global Event Diplomacy"],
    [key |-> "financial_modeling", title |-> "Financial Modeling"],
    [key |-> "government_relations", title |-> "Government Relations"],
    [key |-> "global_case_stories", title |-> "Global Case Stories"],
    [key |-> "hybrid_learning", title |-> "Hybrid Learning"]
>>

KeyNames == {CATEGORY_KEYS[i].key : i \in 1..Len(CATEGORY_KEYS)}

\* A parsed mapping: the category entries, "grand_total", and the two other
\* keys of the schema, each possibly absent.
Mapping(cats, grand_total, product, currency) ==
    [t |-> "dict", cats |-> cats, grand_total |-> grand_total,
     product |-> product, currency |-> currency]

\* a category block {"items": ..., "subtotal": ...}
Block(items, subtotal) == [t |-> "dict", items |-> items, subtotal |-> subtotal]

\* an item {"name": ..., "specs": ..., "quantity": ..., "price": ...}
Item(name, specs, quantity, price) ==
    [t |-> "dict", name |-> name, specs |-> specs, quantity |-> quantity,
     price |-> price]

\* the empty mapping {}
IsEmptyMapping(d) ==
    /\ d.t = "dict"
    /\ \A k \in KeyNames : d.cats[k] = Absent
    /\ d.grand_total = Absent /\ d.product = Absent /\ d.currency = Absent

\* a test "data is None" in place of "not data"
NotDataNoneOnly(d) == d = None

\* "not data" of lines 193 and 204: None and {} are both falsy
NotData(d) == d = None \/ IsEmptyMapping(d)

-----------------------------------------------------------------------------
(* Normalization, app.py:219-274 *)

\* line 231: it.get("name", "") or str(it.get("name", ""))
NormName(v) ==
    CASE v = Absent -> <<>>
      [] v = None -> <<"N", "o", "n", "e">>
      [] v.t = "str" -> v.s

\* line 232: it.get("specs", "") or ""
NormSpecs(v) == IF v.t = "str" THEN v.s ELSE <<>>

\* lines 234-239, given the outcome of int(qty_raw)
PositiveOrOne(q) == IF q.raised THEN 1 ELSE IF q.val <= 0 THEN 1 ELSE q.val

\* lines 233-239
NormQuantity(qty_raw) == PositiveOrOne(PyInt(qty_raw))

\* lines 243-248
NormalizedItem(it, qty, price_num) ==
    [name |-> NormName(it.name), specs |-> NormSpecs(it.specs),
     quantity |-> qty, price |-> Round2(price_num)]

\* lines 228-248: the loop over a list of items; a parse_number exception
\* leaves the loop and the try block
RECURSIVE NormItems(_, _, _)
RECURSIVE NormItem(_, _, _, _, _)
NormItem(l, acc, computed_sub, qty, price_num) ==
    IF price_num.raised THEN price_num
    ELSE NormItems(Tail(l), Append(acc, NormalizedItem(Head(l), qty, price_num.val)),
                   computed_sub + price_num.val * qty)

NormItems(l, acc, computed_sub) ==
    IF l = <<>> THEN Ok([items |-> acc, computed_sub |-> computed_sub])
    ELSE IF ~IsDict(Head(l)) THEN NormItems(Tail(l), acc, computed_sub)
    ELSE NormItem(l, acc, computed_sub,
                  NormQuantity(Get(Head(l).quantity, Num(Unit))),
                  parse_number(Get(Head(l).price, Num(0))))

\* "for it in items": a list yields its elements; the characters of a string
\* and the keys of a dict are not dicts and are skipped; anything else is not
\* iterable
IterItems(items) ==
    CASE items.t = "list" -> NormItems(items.l, <<>>, 0)
      [] items.t \in {"str", "dict"} -> Ok([items |-> <<>>, computed_sub |-> 0])
      [] OTHER -> Raised("object is not iterable")

\* a test "== 0" in place of "<= 0"
TrustUnlessZero(f, computed_sub) ==
    IF f.raised THEN Round2(computed_sub)
    ELSE IF f.val = 0 THEN Round2(computed_sub)
    ELSE f.val

\* lines 251-256, given the outcome of float(subtotal)
TrustOrCompute(f, computed_sub) ==
    IF f.raised THEN Round2(computed_sub)
    ELSE IF f.val <= 0 THEN Round2(computed_sub)
    ELSE f.val

\* lines 250-256
ResolveSubtotal(subtotal, computed_sub) == TrustOrCompute(PyFloat(subtotal), computed_sub)

\* line 223
BlockItems(cat_block) ==
    IF IsDict(cat_block) THEN Get(cat_block.items, List(<<>>)) ELSE List(<<>>)

\* line 224
BlockSubtotal(cat_block) ==
    IF IsDict(cat_block) THEN Get(cat_block.subtotal, Num(0)) ELSE Num(0)

\* lines 258-264: the category of the report and the subtotal_num added to
\* grand_total
CategoryOf(c, items, subtotal_num) ==
    Ok([cat |-> [key |-> c.key, title |-> c.title, items |-> items,
                 subtotal |-> Round2(subtotal_num)],
        subtotal_num |-> subtotal_num])

\* lines 250-264, given the outcome of the loop over the items
CategoryFrom(c, cat_block, it) ==
    IF it.raised THEN it
    ELSE CategoryOf(c, it.val.items,
                    ResolveSubtotal(BlockSubtotal(cat_block), it.val.computed_sub))

\* lines 223-264
NormBlock(c, cat_block) == CategoryFrom(c, cat_block, IterItems(BlockItems(cat_block)))

\* lines 222-264 for one category
NormCategory(data, c) == NormBlock(c, Get(data.cats[c.key], Block(Absent, Absent)))

\* lines 219-266: the loop over CATEGORY_KEYS from entry i on
RECURSIVE NormCategories(_, _, _, _)
RECURSIVE NextCategory(_, _, _, _, _)
NextCategoryPresentOnly(data, i, categories, grand_total, r) ==
    IF r.raised THEN r
    ELSE IF data.cats[CATEGORY_KEYS[i].key] = Absent
    THEN NormCategories(data, i + 1, categories, grand_total)
    ELSE NormCategories(data, i + 1, Append(categories, r.val.cat),
                        grand_total + r.val.subtotal_num)

NextCategory(data, i, categories, grand_total, r) ==
    IF r.raised THEN r
    ELSE NormCategories(data, i + 1, Append(categories, r.val.cat),
                        grand_total + r.val.subtotal_num)

NormCategories(data, i, categories, grand_total) ==
    IF i > Len(CATEGORY_KEYS)
    THEN Ok([categories |-> categories, grand_total |-> Round2(grand_total)])
    ELSE NextCategory(data, i, categories, grand_total,
                      NormCategory(data, CATEGORY_KEYS[i]))

\* the number an int, float or bool compares as
Numeric(v) == IF v.t = "num" THEN v.n ELSE IF v.t = "bool" /\ v.b THEN Unit ELSE 0

\* the model's total taken without round(model_total, 2)
ResolveGrandTotalUnrounded(g, grand_total) ==
    IF IsIntOrFloat(g) /\ Numeric(g) > 0
    THEN parse_number(g).val
    ELSE grand_total

\* lines 268-274
ResolveGrandTotal(g, grand_total) ==
    IF IsIntOrFloat(g) /\ Numeric(g) > 0
    THEN Round2(parse_number(g).val)
    ELSE grand_total

\* lines 266-274, given the outcome of the loop over the categories
WithGrandTotal(data, r) ==
    IF r.raised THEN r
    ELSE Ok([categories |-> r.val.categories,
             grand_total |-> ResolveGrandTotal(data.grand_total, r.val.grand_total)])

\* lines 219-274
Normalize(data) == WithGrandTotal(data, NormCategories(data, 1, <<>>, 0))

-----------------------------------------------------------------------------
(* The model's response and its text, app.py:38-70 *)

\* A response text, by what extract_json_from_text can make of it:
\*   "empty"    the empty string
\*   "plain"    no {...} region (line 58)
\*   "json"     a {...} region that json.loads accepts (line 62)
\*   "sloppy"   a region that parses only after the repairs of lines 65-67
\*   "garbled"  a region that does not parse even then (line 70)
\* obj is the mapping the region denotes.
Text(shape, obj) == [shape |-> shape, obj |-> obj]
NoAttr == [shape |-> "missing", obj |-> None]

\* a response object: its .text, .candidates[0].content.parts[0].text,
\* .candidates[0].content[0].text (NoAttr when the access raises) and str(resp)
Response(text, parts, content0, repr) ==
    [text |-> text, parts |-> parts, content0 |-> content0, repr |-> repr]

response_to_text(resp) ==
    IF resp.text # NoAttr /\ resp.text.shape # "empty" THEN resp.text
    ELSE IF resp.parts # NoAttr THEN resp.parts
    ELSE IF resp.content0 # NoAttr THEN resp.content0
    ELSE resp.repr

extract_json_from_text(text) ==
    CASE text.shape = "empty" -> None
      [] text.shape = "plain" -> None
      [] text.shape = "json" -> text.obj
      [] text.shape = "sloppy" -> text.obj
      [] text.shape = "garbled" -> None

-----------------------------------------------------------------------------
(* results(), app.py:175-315 *)

NoError == "<no error>"
NoRender == [done |-> FALSE]
Unknown == <<"U", "n", "k", "n", "o", "w", "n">>
KeyMissing == "GOOGLE_API_KEY is not configured in the environment."

\* the error item filed under the second category
ErrorFallbackSecondCategory(product_name, currency_code, e) ==
    Mapping([k \in KeyNames |->
                IF k = "financial_modeling"
                THEN Block(List(<<Item(Str(<<"E", "r", "r", "o", "r">>), Str(e),
                                       Num(Unit), Num(0))>>), Num(0))
                ELSE Block(List(<<>>), Num(0))],
            Num(0),
            Str(IF product_name # <<>> THEN product_name ELSE Unknown),
            Str(currency_code))

\* lines 287-296
ErrorFallback(product_name, currency_code, e) ==
    Mapping([k \in KeyNames |->
                IF k = "vision_2030"
                THEN Block(List(<<Item(Str(<<"E", "r", "r", "o", "r">>), Str(e),
                                       Num(Unit), Num(0))>>), Num(0))
                ELSE Block(List(<<>>), Num(0))],
            Num(0),
            Str(IF product_name # <<>> THEN product_name ELSE Unknown),
            Str(currency_code))

\* a fallback that reuses the error skeleton
EmptyFallbackWithErrorItem(product_name, currency_code) ==
    ErrorFallback(product_name, currency_code, "no JSON")

\* lines 206-215
EmptyFallback(product_name, currency_code) ==
    Mapping([k \in KeyNames |-> Block(List(<<>>), Num(0))], Num(0),
            Str(product_name), Str(currency_code))

\* lines 297-305: the blocks of the fallback are copied as they are
CategoriesFallback(fallback) ==
    [i \in 1..Len(CATEGORY_KEYS) |->
        LET block == Get(fallback.cats[CATEGORY_KEYS[i].key],
                         Block(List(<<>>), Num(0)))
        IN  [key |-> CATEGORY_KEYS[i].key, title |-> CATEGORY_KEYS[i].title,
             items |-> [j \in 1..Len(Get(block.items, List(<<>>)).l) |->
                          LET it == block.items.l[j]
                          IN  [name |-> it.name.s, specs |-> it.specs.s,
                               quantity |-> Trunc(it.quantity.n),
                               price |-> it.price.n]],
             subtotal |-> Get(block.subtotal, Num(0)).n]]

\* lines 276-284
RenderResults(f, categories, grand_total, data) ==
    [done |-> TRUE, product_name |-> f.product_name, place |-> f.place,
     currency |-> detect_currency_code(f.place), categories |-> categories,
     grand_total |-> grand_total, raw_model_data |-> data, error |-> NoError]

\* lines 286-315
RenderError(f, e) ==
    LET fallback == ErrorFallback(f.product_name, detect_currency_code(f.place), e)
    IN  [done |-> TRUE, product_name |-> f.product_name, place |-> f.place,
         currency |-> detect_currency_code(f.place),
         categories |-> CategoriesFallback(fallback),
         grand_total |-> 0, raw_model_data |-> fallback, error |-> e]

\* lines 276-315, given the outcome of the normalization
FinishWith(f, data, r) ==
    IF r.raised
    THEN /\ exc' = r.val
         /\ render' = RenderError(f, r.val)
    ELSE /\ exc' = NoError
         /\ render' = RenderResults(f, r.val.categories, r.val.grand_total, data)

\* lines 218-315: normalize data and render
Finish(f, data) == FinishWith(f, data, Normalize(data))

-----------------------------------------------------------------------------
(* Inputs *)

\* request forms: product_name and place
Forms == {
    [product_name |-> <<"S", "m", "a", "r", "t", " ", "K", "i", "o", "s", "k">>, place |-> <<"D", "u", "b", "a", "i", ",", " ", "U", "A", "E">>],
    [product_name |-> <<>>, place |-> <<>>]
}

\* raw items the model may return
ItemChoices == {
    Str(<<"x">>),
    Item(Str(<<"R", "o", "u", "t", "e", "r">>), Str(<<"4", "K">>), Num(2 * Unit), Str(<<"1", ",", "0", "0", "0", " ", "-", " ", "1", ",", "2", "0", "0">>)),
    Item(Absent, Absent, Num(0), Num(4)),
    Item(None, None, Str(<<"x">>), Num(0 - 5 * Unit)),
    Item(Absent, Absent, Str(<<" ", "3">>), Str(<<"$", "1", ",", "2", "0", "0", ".", "5", "0">>)),
    Item(Absent, Absent, Absent, Str(<<"1", ".", "2", ".", "3", "-", "4">>))
}

RECURSIVE SeqsUpTo(_, _)
SeqsUpTo(S, n) ==
    IF n = 0 THEN {<<>>}
    ELSE LET shorter == SeqsUpTo(S, n - 1)
         IN  shorter \cup {Append(s, x) : s \in {q \in shorter : Len(q) = n - 1}, x \in S}

\* values of a block's "items"
ItemsValues ==
    {Absent, None, Num(3 * Unit), Str(<<"n", "a">>)}
    \cup {List(l) : l \in SeqsUpTo(ItemChoices, MaxItems)}

\* values of a block's "subtotal"
SubtotalValues ==
    {Absent, Num(0), Num(2504), Num(0 - Unit), Str(<<"1", "2", ".", "5">>), Str(<<"1", ",", "2", "0", "0">>), None}

\* values of a category entry
Blocks ==
    {Absent, None, Str(<<"n", "a">>), List(<<>>)}
    \cup {Block(i, s) : i \in ItemsValues, s \in SubtotalValues}

\* entries given to the categories other than the focus one
BackgroundBlocks == {Absent, Block(List(<<>>), Num(4))}

\* values of "grand_total", with the other keys of the schema present or not
GrandTotals ==
    {Absent, Num(0), Num(99 * Unit + 6), Bool(TRUE), Str(<<"1", "2", ".", "5">>)}

\* the mappings the model may return: one category takes any entry, the
\* four others share one background entry
Mappings ==
    {Mapping([k \in KeyNames |-> IF k = focus THEN b ELSE bg], g,
             IF g = Absent THEN Absent ELSE Str(<<"S", "m", "a", "r", "t", " ", "K", "i", "o", "s", "k">>),
             IF g = Absent THEN Absent ELSE Str(<<"A", "E", "D">>)) :
        focus \in KeyNames, b \in Blocks, bg \in BackgroundBlocks, g \in GrandTotals}

EmptyMapping == Mapping([k \in KeyNames |-> Absent], Absent, Absent, Absent)

Texts ==
    {Text("json", d) : d \in Mappings}
    \cup {Text("sloppy", EmptyMapping), Text("garbled", None),
          Text("plain", None), Text("empty", None)}

\* the responses generate_content may return: most carry .text; a few only
\* one of the other shapes response_to_text knows
Responses ==
    {Response(x, NoAttr, NoAttr, Text("plain", None)) : x \in Texts}
    \cup {Response(Text("empty", None), Text("json", EmptyMapping), NoAttr,
                   Text("plain", None)),
          Response(NoAttr, NoAttr, Text("garbled", None), Text("plain", None)),
          Response(NoAttr, NoAttr, NoAttr, Text("plain", None))}

\* texts of the exceptions generate_content may raise
ModelErrors == {"503 The model is overloaded", "API key not valid"}

-----------------------------------------------------------------------------
(* The handler as a state machine *)

InitHandler ==
    /\ api_key \in BOOLEAN
    /\ pc = "idle"
    /\ form \in Forms
    /\ calls = 0
    /\ extracted = <<>>
    /\ exc = NoError
    /\ render = NoRender

\* lines 177-185 with the key missing: the RuntimeError is caught at once
RequestWithoutKey ==
    /\ pc \in {"idle", "done"}
    /\ ~api_key
    /\ \E f \in Forms : form' = f /\ render' = RenderError(f, KeyMissing)
    /\ exc' = KeyMissing
    /\ calls' = 0
    /\ extracted' = <<>>
    /\ pc' = "done"
    /\ UNCHANGED <<api_key, parseVars, currencyVars>>

\* lines 177-188 up to the first generate_content call
Request ==
    /\ pc \in {"idle", "done"}
    /\ api_key
    /\ \E f \in Forms : form' = f
    /\ exc' = NoError
    /\ render' = NoRender
    /\ calls' = 0
    /\ extracted' = <<>>
    /\ pc' = "call1"
    /\ UNCHANGED <<api_key, parseVars, currencyVars>>

\* line 188: the first call raises
GenerateContentFails ==
    /\ pc = "call1"
    /\ calls' = calls + 1
    /\ \E e \in ModelErrors : exc' = e /\ render' = RenderError(form, e)
    /\ pc' = "done"
    /\ UNCHANGED <<api_key, form, extracted, parseVars, currencyVars>>

\* lines 188-193 and, when data is truthy, 218-284
GenerateContent ==
    /\ pc = "call1"
    /\ calls' = calls + 1
    /\ \E resp \in Responses :
          LET text == response_to_text(resp)
              data == extract_json_from_text(text)
          IN  /\ extracted' = <<data>>
              /\ IF NotData(data)
                 THEN pc' = "call2" /\ UNCHANGED <<exc, render>>
                 ELSE pc' = "done" /\ Finish(form, data)
    /\ UNCHANGED <<api_key, form, parseVars, currencyVars>>

\* line 199: the follow-up call raises
FollowUpFails ==
    /\ pc = "call2"
    /\ calls' = calls + 1
    /\ \E e \in ModelErrors : exc' = e /\ render' = RenderError(form, e)
    /\ pc' = "done"
    /\ UNCHANGED <<api_key, form, extracted, parseVars, currencyVars>>

\* lines 199-284: the follow-up call, the empty fallback and the rest
FollowUp ==
    /\ pc = "call2"
    /\ calls' = calls + 1
    /\ \E resp2 \in Responses :
          LET text2 == response_to_text(resp2)
              data == extract_json_from_text(text2)
          IN  /\ extracted' = Append(extracted, data)
              /\ Finish(form, IF NotData(data)
                              THEN EmptyFallback(form.product_name,
                                                 detect_currency_code(form.place))
                              ELSE data)
    /\ pc' = "done"
    /\ UNCHANGED <<api_key, form, parseVars, currencyVars>>

Next ==
    \/ RequestWithoutKey
    \/ Request
    \/ GenerateContentFails
    \/ GenerateContent
    \/ FollowUpFails
    \/ FollowUp

-----------------------------------------------------------------------------
(* parse_number and detect_currency_code on their own *)

\* characters of the strings tried on parse_number
ParseAlphabet == {"0", "1", ".", ",", "-", " ", "a"}

Strings(A, n) == UNION {[1..k -> A] : k \in 0..n}

ParseInputs ==
    {None, Num(0), Num(1200 * Unit), Num(1234), Bool(TRUE), List(<<>>), EmptyDict}
    \cup {Str(s) : s \in Strings(ParseAlphabet, MaxLen)}

Pending == [st |-> "pending", val |-> 0]

CallParseNumber ==
    /\ pn_ret = Pending
    /\ pn_ret' = LET r == parse_number(pn_arg)
                 IN  IF r.raised THEN [st |-> "raised", val |-> 0]
                     ELSE [st |-> "returned", val |-> r.val]
    /\ UNCHANGED <<pn_arg, handlerVars, currencyVars>>

PlaceInputs ==
    {<<>>, <<"M", "u", "m", "b", "a", "i", ",", " ", "I", "n", "d", "i", "a">>, <<"R", "a", "n", "d", "o", "m", " ", "T", "o", "w", "n">>, <<"D", "u", "b", "a", "i", ",", " ", "U", "A", "E">>}
    \cup UNION {{CURRENCY_MAP[i].k, <<" ">> \o CURRENCY_MAP[i].k \o <<" ">>,
                 Upper(CURRENCY_MAP[i].k), <<"N", "e", "w", " ">> \o CURRENCY_MAP[i].k} :
                i \in 1..Len(CURRENCY_MAP)}

NoCode == "<pending>"

CallDetectCurrencyCode ==
    /\ code_ret = NoCode
    /\ code_ret' = detect_currency_code(place_arg)
    /\ UNCHANGED <<place_arg, handlerVars, parseVars>>

IdleHandler ==
    /\ api_key = TRUE /\ pc = "idle" /\ form = [product_name |-> <<>>, place |-> <<>>]
    /\ calls = 0 /\ extracted = <<>> /\ exc = NoError /\ render = NoRender

Init ==
    /\ InitHandler
    /\ pn_arg = None /\ pn_ret = Pending
    /\ place_arg = <<>> /\ code_ret = NoCode

Spec == Init /\ [][Next]_vars

InitParse ==
    /\ IdleHandler
    /\ pn_arg \in ParseInputs /\ pn_ret = Pending
    /\ place_arg = <<>> /\ code_ret = NoCode

SpecParse == InitParse /\ [][CallParseNumber]_vars

InitCurrency ==
    /\ IdleHandler
    /\ pn_arg = None /\ pn_ret = Pending
    /\ place_arg \in PlaceInputs /\ code_ret = NoCode

SpecCurrency == InitCurrency /\ [][CallDetectCurrencyCode]_vars

-----------------------------------------------------------------------------
(* Properties *)

FixedOrder == <<"vision_2030", "financial_modeling", "government_relations",
                "global_case_stories", "hybrid_learning">>

\* a request has been answered / answered by the normal path
Rendered == pc = "done"
NormalReport == pc = "done" /\ exc = NoError

\* the mapping that was normalized
Upstream == render.raw_model_data

\* the "subtotal" a category entry of the mapping supplies (0 when it does not)
UpstreamSubtotal(d, k) ==
    IF d.cats[k].t = "dict" /\ d.cats[k].subtotal # Absent
    THEN d.cats[k].subtotal ELSE Num(0)

\* float() accepts the upstream subtotal and the result is positive
TrustedSubtotal(d, k) ==
    ~PyFloat(UpstreamSubtotal(d, k)).raised /\ PyFloat(UpstreamSubtotal(d, k)).val > 0

\* the dict elements of the "items" list of a category entry
UpstreamItems(d, k) ==
    IF d.cats[k].t = "dict" /\ d.cats[k].items.t = "list"
    THEN SelectSeq(d.cats[k].items.l, IsDict) ELSE <<>>

RECURSIVE SumSeq(_)
SumSeq(s) == IF s = <<>> THEN 0 ELSE Head(s) + SumSeq(Tail(s))

\* sum of price x quantity over the items of the report
ReportedItemsTotal(cat) ==
    SumSeq([j \in 1..Len(cat.items) |-> cat.items[j].price * cat.items[j].quantity])

\* sum of parse_number(price) x quantity, the prices not yet rounded
UnroundedItemsTotal(d, cat) ==
    SumSeq([j \in 1..Len(cat.items) |->
               parse_number(Get(UpstreamItems(d, cat.key)[j].price, Num(0))).val
               * cat.items[j].quantity])

\* the subtotal of a category before it is rounded for the report
UnroundedSubtotal(d, cat) ==
    IF TrustedSubtotal(d, cat.key) THEN PyFloat(UpstreamSubtotal(d, cat.key)).val
    ELSE cat.subtotal

PositiveNumericTotal(d) ==
    d.grand_total.t \in {"num", "bool"} /\ Numeric(d.grand_total) > 0

\* C1: whenever the try block of results() raised, the request ends with the
\* degraded report: grand_total 0, five zero subtotals, one item "Error" with
\* the exception text as specs in vision_2030, no other items, and the
\* exception text as the error string.
C1_DegradedReportOnException ==
    (pc = "done" /\ exc # NoError) =>
        /\ render.done
        /\ render.error = exc
        /\ render.grand_total = 0
        /\ Len(render.categories) = 5
        /\ \A i \in 1..5 : render.categories[i].subtotal = 0
        /\ render.categories[1].key = "vision_2030"
        /\ Len(render.categories[1].items) = 1
        /\ render.categories[1].items[1].name = <<"E", "r", "r", "o", "r">>
        /\ render.categories[1].items[1].specs = exc
        /\ \A i \in 2..5 : render.categories[i].items = <<>>

\* an exception of the normalization, after the follow-up call
C1_Witness == pc = "done" /\ calls = 2 /\ exc = "ValueError"

EmptyObject == Mapping([k \in KeyNames |-> Absent], Absent, Absent, Absent)

\* C2 as claimed: at most two model calls per request, and the second one
\* exactly when the first extraction returned no object (None).
C2_FollowUpIffNoObject ==
    /\ calls <= 2
    /\ (calls = 2 => extracted[1] = None)
    /\ (Len(extracted) >= 1 /\ extracted[1] = None => pc = "call2" \/ calls = 2)

\* C2 amended: at most two model calls per request, and the second one
\* exactly when the first extraction returned no object or the empty object.
C2_FollowUpIffNoData ==
    /\ calls <= 2
    /\ (calls = 2 => extracted[1] \in {None, EmptyObject})
    /\ (Len(extracted) >= 1 /\ extracted[1] \in {None, EmptyObject}
            => pc = "call2" \/ calls = 2)
    /\ (Len(extracted) >= 1 /\ extracted[1] \notin {None, EmptyObject}
            => pc = "done" /\ calls = 1)

\* a follow-up call made after the first response parsed to {}
C2_Witness == pc = "done" /\ calls = 2 /\ extracted[1] = EmptyObject

\* C3: every rendered report has exactly the five categories, in the fixed
\* order, whatever keys the parsed mapping has.
C3_FiveCategoriesInOrder ==
    Rendered =>
        /\ Len(render.categories) = 5
        /\ \A i \in 1..5 : render.categories[i].key = FixedOrder[i]

\* a normal report from a mapping without vision_2030, with another category
\* and with keys that are no category
C3_Witness ==
    /\ NormalReport
    /\ extracted[Len(extracted)] = Upstream
    /\ Upstream.cats["vision_2030"] = Absent
    /\ Upstream.cats["hybrid_learning"] # Absent
    /\ Upstream.product # Absent

\* C4 as claimed: grand_total is the supplied grand_total when that is a
\* positive number, and otherwise round(sum of the reported subtotals, 2).
C4_GrandTotalOfReportedSubtotals ==
    NormalReport =>
        render.grand_total =
            IF PositiveNumericTotal(Upstream) THEN Numeric(Upstream.grand_total)
            ELSE Round2(SumSeq([i \in 1..5 |-> render.categories[i].subtotal]))

\* C4 amended: grand_total is round(supplied grand_total, 2) when that is a
\* positive number (true counting as 1), and otherwise round(sum, 2) of the
\* category subtotals as they are before their own rounding.
C4_GrandTotalOfUnroundedSubtotals ==
    NormalReport =>
        /\ Len(render.categories) = 5
        /\ render.grand_total =
            IF PositiveNumericTotal(Upstream)
            THEN Round2(Numeric(Upstream.grand_total))
            ELSE Round2(SumSeq([i \in 1..5 |->
                                   UnroundedSubtotal(Upstream, render.categories[i])]))

\* no grand_total is supplied and the total is not the sum of what is shown
C4_Witness ==
    /\ NormalReport
    /\ ~PositiveNumericTotal(Upstream)
    /\ render.grand_total # SumSeq([i \in 1..5 |-> render.categories[i].subtotal])
    /\ render.grand_total > 0

\* C5 as claimed: a reported subtotal is the upstream subtotal when that
\* parses as a positive number, and otherwise round(sum of price x quantity
\* over the normalized items, 2).
C5_SubtotalUpstreamOrItems ==
    NormalReport =>
        \A i \in 1..5 :
            render.categories[i].subtotal =
                IF TrustedSubtotal(Upstream, FixedOrder[i])
                THEN PyFloat(UpstreamSubtotal(Upstream, FixedOrder[i])).val
                ELSE Round2(ReportedItemsTotal(render.categories[i]))

\* C5 amended: a reported subtotal is round(float(upstream subtotal), 2) when
\* float() accepts the upstream value and the result is positive, and
\* otherwise round(sum of parse_number(price) x quantity, 2), the prices taken
\* before they are rounded for the report.
C5_SubtotalRoundedUpstreamOrItems ==
    NormalReport =>
        \A i \in 1..5 :
            /\ Len(render.categories[i].items) = Len(UpstreamItems(Upstream, FixedOrder[i]))
            /\ render.categories[i].subtotal =
                IF TrustedSubtotal(Upstream, FixedOrder[i])
                THEN Round2(PyFloat(UpstreamSubtotal(Upstream, FixedOrder[i])).val)
                ELSE Round2(UnroundedItemsTotal(Upstream, render.categories[i]))

\* a computed subtotal that the rounded prices of the report do not add up to
C5_Witness ==
    /\ NormalReport
    /\ \E i \in 1..5 :
          /\ ~TrustedSubtotal(Upstream, FixedOrder[i])
          /\ Len(render.categories[i].items) = 2
          /\ render.categories[i].subtotal
                # Round2(ReportedItemsTotal(render.categories[i]))

\* C6 as claimed: once a mapping was extracted, the request ends with a
\* normal report and no error string, and every category entry that is
\* absent or not a mapping shows no items and subtotal 0.
C6_NormalizationNeverFails ==
    (pc = "done" /\ Len(extracted) >= 1 /\ Len(extracted) = calls) =>
        /\ exc = NoError
        /\ render.error = NoError
        /\ \A i \in 1..5 :
              Upstream.cats[FixedOrder[i]].t # "dict" =>
                  /\ render.categories[i].items = <<>>
                  /\ render.categories[i].subtotal = 0

\* C7: when the follow-up response yields no data either, the request ends
\* with the empty report: five categories without items and with subtotal 0,
\* grand_total 0, no error.
C7_EmptyReportAfterTwoFailures ==
    (pc = "done" /\ Len(extracted) = 2 /\ extracted[2] \in {None, EmptyObject}) =>
        /\ exc = NoError
        /\ render.error = NoError
        /\ render.grand_total = 0
        /\ Len(render.categories) = 5
        /\ \A i \in 1..5 : /\ render.categories[i].items = <<>>
                           /\ render.categories[i].subtotal = 0

\* both extractions returned None
C7_Witness ==
    pc = "done" /\ Len(extracted) = 2 /\ extracted[1] = None /\ extracted[2] = None

\* C8 as claimed: every item of a normal report has a quantity >= 1 and a
\* price >= 0.
C8_QuantityAndPriceRanges ==
    NormalReport =>
        \A i \in 1..Len(render.categories) :
            \A j \in 1..Len(render.categories[i].items) :
                /\ render.categories[i].items[j].quantity >= 1
                /\ render.categories[i].items[j].price >= 0

\* C9 as claimed: parse_number never raises, and returns 0.0 for None and
\* for the empty string.
C9_ParseNumberNeverRaises ==
    /\ pn_ret.st # "raised"
    /\ (pn_ret.st = "returned" /\ pn_arg \in {None, Str(<<>>)} => pn_ret.val = 0)

\* C10 as claimed: detect_currency_code gives every key of CURRENCY_MAP the
\* code the table maps it to.
C10_EveryKeyGetsItsCode ==
    code_ret # NoCode =>
        \A i \in 1..Len(CURRENCY_MAP) :
            place_arg = CURRENCY_MAP[i].k => code_ret = CURRENCY_MAP[i].v

=============================================================================
